---- MODULE Spec2Model ----
(***************************************************************************)
(* The parameter type pipeline of node-crawler/src/param_type_pipeline.py: *)
(* heuristic labelling, dataset building, training, prediction, the        *)
(* active-learning session, retraining and the merge of predictions into   *)
(* the templates, together with the control flow of main.                  *)
(*                                                                         *)
(* JSON values are tagged records: null, strings, numbers, lists and       *)
(* dicts (a dict is a function from its present keys to JSON values).      *)
(* Confidences and probabilities are integers in percent (0.70 is 70).     *)
(***************************************************************************)
EXTENDS Integers, Sequences, FiniteSets, TLC

VARIABLES
    mode,              \* the entry point this run exercises
    pc,                \* position in the code of the entry point
    args,              \* argparse result: train / predict / active
    inputFile,         \* content of the --input path, or NoFile
    modelFile,         \* content of the --model path, or NoFile
    outputFile,        \* content of the --output path, or NoFile
    templates,         \* the caller's template collection
    input_format_hint, \* main's local of the same name
    dv_clf,            \* main's locals dv, clf (Unbound before assignment)
    preds,             \* main's local preds / write_output_templates' predictions
    threshold,         \* run_active_learning's threshold, in percent
    batch,             \* run_active_learning's batch
    to_label,          \* run_active_learning's to_label
    item_i,            \* index of the next item of to_label to prompt
    prompts,           \* the prompts issued so far: <<item, response>> pairs
    manual_labels,     \* run_active_learning's manual_labels / retrain's argument
    templates_copy,    \* retrain_with_manual_labels' templates_copy
    df,                \* the feature table last built (its label column)
    raised,            \* the exception that ended the run, or "" if none
    clock,             \* datetime.utcnow() of the next write
    prevOutput,        \* the output of the previous merge (merge-twice runs)
    calls              \* direct calls of the pure functions: arguments and result

vars == <<mode, pc, args, inputFile, modelFile, outputFile, templates,
          input_format_hint, dv_clf, preds, threshold, batch, to_label, item_i,
          prompts, manual_labels, templates_copy, df, raised, clock, prevOutput,
          calls>>

----------------------------------------------------------------------------
(* JSON / Python values *)

None == [k |-> "null"]
S(s) == [k |-> "str", v |-> s]
N(n) == [k |-> "num", v |-> n]
B(b) == [k |-> "bool", v |-> b]
L(seq) == [k |-> "list", v |-> seq]
D(f) == [k |-> "dict", v |-> f]

IsNone(x) == x.k = "null"
IsList(x) == x.k = "list"
IsDict(x) == x.k = "dict"
IsStr(x) == x.k = "str"

\* Python truthiness: None, "", 0, [] and {} are falsy
Truthy(x) ==
    CASE x.k = "null" -> FALSE
      [] x.k = "str" -> x.v # ""
      [] x.k = "num" -> x.v # 0
      [] x.k = "bool" -> x.v
      [] x.k = "list" -> Len(x.v) > 0
      [] x.k = "dict" -> DOMAIN x.v # {}

\* a or b
Or(a, b) == IF Truthy(a) THEN a ELSE b

\* d.get(key) and d.get(key, default) on a dict
Get(d, key) == IF key \in DOMAIN d.v THEN d.v[key] ELSE None
GetOr(d, key, default) == IF key \in DOMAIN d.v THEN d.v[key] ELSE default

\* d[key] = val on a dict
SetKey(d, key, val) ==
    D([x \in (DOMAIN d.v) \cup {key} |-> IF x = key THEN val ELSE d.v[x]])

\* lst[i] with Python's index rules: 0-based, a negative index counts from the
\* end, anything else raises IndexError
IndexOk(lst, i) == i >= -Len(lst.v) /\ i < Len(lst.v)
Pos(lst, i) == IF i >= 0 THEN i + 1 ELSE Len(lst.v) + i + 1
At(lst, i) == lst.v[Pos(lst, i)]

----------------------------------------------------------------------------
(* Strings *)

Char(s, i) == SubSeq(s, i, i)
Digits == {"0", "1", "2", "3", "4", "5", "6", "7", "8", "9"}
HexDigits == Digits \cup {"a", "b", "c", "d", "e", "f", "A", "B", "C", "D", "E", "F"}
UpperAlpha == "ABCDEFGHIJKLMNOPQRSTUVWXYZ"
LowerAlpha == "abcdefghijklmnopqrstuvwxyz"
Whitespace == {" ", "\t", "\n", "\r", "\f"}

LowerChar(c) ==
    IF \E i \in 1..26 : Char(UpperAlpha, i) = c
    THEN Char(LowerAlpha, CHOOSE i \in 1..26 : Char(UpperAlpha, i) = c)
    ELSE c

RECURSIVE Lower(_)
Lower(s) == IF s = "" THEN "" ELSE LowerChar(Head(s)) \o Lower(Tail(s))

RECURSIVE Upper(_)
UpperChar(c) ==
    IF \E i \in 1..26 : Char(LowerAlpha, i) = c
    THEN Char(UpperAlpha, CHOOSE i \in 1..26 : Char(LowerAlpha, i) = c)
    ELSE c
Upper(s) == IF s = "" THEN "" ELSE UpperChar(Head(s)) \o Upper(Tail(s))

RECURSIVE LStrip(_)
LStrip(s) == IF s # "" /\ Head(s) \in Whitespace THEN LStrip(Tail(s)) ELSE s

RECURSIVE RStrip(_)
RStrip(s) ==
    IF s # "" /\ Char(s, Len(s)) \in Whitespace
    THEN RStrip(SubSeq(s, 1, Len(s) - 1))
    ELSE s

\* str.strip()
Strip(s) == RStrip(LStrip(s))

\* sub in s
Contains(s, sub) ==
    \E i \in 1..(Len(s) - Len(sub) + 1) : SubSeq(s, i, i + Len(sub) - 1) = sub

StartsWith(s, pre) == Len(s) >= Len(pre) /\ SubSeq(s, 1, Len(pre)) = pre

\* the regex  sub$  under re.search: $ matches at the end and before a final newline
EndsWithDollar(s, sub) ==
    \/ Len(s) >= Len(sub) /\ SubSeq(s, Len(s) - Len(sub) + 1, Len(s)) = sub
    \/ /\ Len(s) >= Len(sub) + 1
       /\ Char(s, Len(s)) = "\n"
       /\ SubSeq(s, Len(s) - Len(sub), Len(s) - 1) = sub

AllIn(s, set) == \A i \in 1..Len(s) : Char(s, i) \in set

\* re.fullmatch(r'-?\d+', v)
IsIntLiteral(v) ==
    LET body == IF v # "" /\ Head(v) = "-" THEN Tail(v) ELSE v
    IN  body # "" /\ AllIn(body, Digits)

\* re.fullmatch(r'-?\d+\.\d+', v)
IsFloatLiteral(v) ==
    LET body == IF v # "" /\ Head(v) = "-" THEN Tail(v) ELSE v
    IN  \E i \in 2..(Len(body) - 1) :
            /\ Char(body, i) = "."
            /\ AllIn(SubSeq(body, 1, i - 1), Digits)
            /\ AllIn(SubSeq(body, i + 1, Len(body)), Digits)

\* UUID_RE.match(v): 8-4-4-4-12 hex groups, $ also before a final newline
IsUuidCore(v) ==
    /\ Len(v) = 36
    /\ \A i \in 1..36 :
           IF i \in {9, 14, 19, 24} THEN Char(v, i) = "-" ELSE Char(v, i) \in HexDigits
UUID_RE(v) ==
    \/ IsUuidCore(v)
    \/ Len(v) = 37 /\ Char(v, 37) = "\n" /\ IsUuidCore(SubSeq(v, 1, 36))

\* str(n) for an integer n
RECURSIVE NatStr(_)
NatStr(n) ==
    IF n < 10 THEN Char("0123456789", n + 1)
    ELSE NatStr(n \div 10) \o Char("0123456789", (n % 10) + 1)
IntStr(n) == IF n < 0 THEN "-" \o NatStr(-n) ELSE NatStr(n)

\* str(value) for the JSON scalars a parameter carries
PyStr(x) ==
    CASE x.k = "str" -> x.v
      [] x.k = "num" -> IntStr(x.v)
      [] x.k = "bool" -> IF x.v THEN "True" ELSE "False"
      [] OTHER -> "None"

----------------------------------------------------------------------------
(* Heuristic bootstrap labeler *)

Labels == {"int", "float", "bool", "uuid", "email", "enum", "string"}

\* re.search(r'id$|_id$|^id$|count|num|size|page|limit', name, re.I)
IntNamePattern(name) ==
    LET n == Lower(name)
    IN  \/ EndsWithDollar(n, "id")
        \/ \E w \in {"count", "num", "size", "page", "limit"} : Contains(n, w)

\* re.search(r'^(is|has|enable|flag)|_flag$', name, re.I)
BoolNamePattern(name) ==
    LET n == Lower(name)
    IN  \/ \E w \in {"is", "has", "enable", "flag"} : StartsWith(n, w)
        \/ EndsWithDollar(n, "_flag")

heuristic_label(name, value, options) ==
    IF Truthy(options) /\ Len(options.v) > 0 THEN "enum"
    ELSE IF IsNone(value) THEN
        IF Truthy(name) /\ IntNamePattern(name.v) THEN "int" ELSE "string"
    ELSE LET v == Strip(PyStr(value)) IN
        IF v = "" THEN
            IF Truthy(name) /\ IntNamePattern(name.v) THEN "int" ELSE "string"
        ELSE IF Lower(v) \in {"true", "false"} THEN "bool"
        ELSE IF v \in {"0", "1"} /\ Truthy(name) /\ BoolNamePattern(name.v) THEN "bool"
        ELSE IF IsIntLiteral(v) THEN "int"
        ELSE IF IsFloatLiteral(v) THEN "float"
        ELSE IF UUID_RE(v) THEN "uuid"
        ELSE IF Contains(v, "@") /\ Contains(v, ".") THEN "email"
        ELSE "string"

----------------------------------------------------------------------------
(* Feature extraction *)

WordChars ==
    Digits \cup {"_"} \cup {Char(UpperAlpha, i) : i \in 1..26}
           \cup {Char(LowerAlpha, i) : i \in 1..26}
Alnum == WordChars \ {"_"}
Alpha == Alnum \ Digits

\* re.search(r'\b(id|_id|user|uid|uid\b)', name, re.I): every alternative starts
\* with a word character, so \b asks for the start or a non-word character before
IdTokenPattern(name) ==
    LET n == Lower(name)
    IN  \E i \in 1..Len(n) :
            /\ i = 1 \/ Char(n, i - 1) \notin WordChars
            /\ \E w \in {"id", "_id", "user", "uid"} :
                   StartsWith(SubSeq(n, i, Len(n)), w)

Int01(b) == IF b THEN 1 ELSE 0

extract_feature_dict(param_entry, method) ==
    LET name == Or(Get(param_entry, "name"), S("")).v
        orig == GetOr(param_entry, "original_value", S(""))
        options == Or(Or(Get(param_entry, "options"), Get(param_entry, "opts")), None)
        required == Truthy(GetOr(param_entry, "required", B(FALSE)))
        v == IF IsNone(orig) THEN "" ELSE PyStr(orig)
        nl == Lower(name)
    IN  [ name_len |-> Len(name),
          name_has_id_token |-> Int01(IdTokenPattern(name)),
          name_has_num |-> Int01(\E i \in 1..Len(name) : Char(name, i) \in Digits),
          name_has_date |->
              Int01(\E w \in {"date", "day", "month", "year", "dob"} : Contains(nl, w)),
          name_has_email |-> Int01(\E w \in {"email", "e-mail"} : Contains(nl, w)),
          name_starts_is |->
              Int01(\E w \in {"is", "has", "should", "enable", "can"} : StartsWith(nl, w)),
          val_len |-> Len(v),
          val_is_digits |-> Int01(v # "" /\ AllIn(v, Digits)),
          val_has_alpha |-> Int01(\E i \in 1..Len(v) : Char(v, i) \in Alpha),
          val_has_special |-> Int01(\E i \in 1..Len(v) : Char(v, i) \notin Alnum),
          val_is_uuid |-> Int01(UUID_RE(v)),
          val_is_bool_token |-> Int01(Lower(v) \in {"true", "false"}),
          val_is_int |-> Int01(IsIntLiteral(v)),
          val_is_float |-> Int01(IsFloatLiteral(v)),
          val_has_at |-> Int01(Contains(v, "@")),
          required |-> Int01(required),
          method_POST |-> Int01(Upper(method) = "POST"),
          method_GET |-> Int01(Upper(method) = "GET"),
          has_options |-> Int01(Truthy(options)),
          options_count |-> IF Truthy(options) THEN Len(options.v) ELSE 0,
          name_prefix_3 |-> IF Len(name) >= 3 THEN Lower(SubSeq(name, 1, 3)) ELSE nl,
          name_suffix_3 |->
              IF Len(name) >= 3 THEN Lower(SubSeq(name, Len(name) - 2, Len(name))) ELSE nl ]

----------------------------------------------------------------------------
(* Dataset builder *)

\* t.get("method") or ""
MethodOf(t) == Or(Get(t, "method"), S("")).v

\* t.get("params", [])
ParamsOf(t) == GetOr(t, "params", L(<<>>)).v

\* the label column's entry for one parameter (line 133)
LabelOf(p) ==
    LET type == Get(p, "type")
    IN  IF Truthy(type) THEN type.v
        ELSE heuristic_label(Get(p, "name"), Get(p, "original_value"), Get(p, "options"))

\* the rows of one template, in parameter order
TemplateRows(t, t_idx) ==
    [ j \in 1..Len(ParamsOf(t)) |->
        [ feat |-> extract_feature_dict(ParamsOf(t)[j], MethodOf(t)),
          label |-> LabelOf(ParamsOf(t)[j]),
          template_index |-> t_idx,
          param_index |-> j - 1,
          template_id |-> Get(t, "id"),
          name |-> Get(ParamsOf(t)[j], "name"),
          original_value |-> Get(ParamsOf(t)[j], "original_value") ] ]

RECURSIVE AllRows(_, _)
AllRows(ts, from) ==
    IF from > Len(ts) THEN <<>>
    ELSE TemplateRows(ts[from], from - 1) \o AllRows(ts, from + 1)

\* (df, meta): df is empty exactly when there is no row
build_dataset_from_templates(ts) ==
    LET rows == AllRows(ts.v, 1)
    IN  [ df |-> [i \in 1..Len(rows) |-> [feat |-> rows[i].feat, label |-> rows[i].label]],
          meta |-> [i \in 1..Len(rows) |->
                      [template_id |-> rows[i].template_id, param_name |-> rows[i].name]] ]

----------------------------------------------------------------------------
(* Train / save / load *)

NoFile == [k |-> "nofile"]
Unbound == [k |-> "unbound"]
NoneClf == [k |-> "none"]

\* the artifact joblib.dump writes: the fitted pair, identified by the number of
\* the write that produced it, with the classifier's classes_
Artifact(gen, classes) == [k |-> "artifact", gen |-> gen, classes |-> classes]

NextGen(file) == IF file = NoFile THEN 1 ELSE file.gen + 1

LabelSet(table) == {table[i].label : i \in 1..Len(table)}
ClassCount(table, c) == Cardinality({i \in 1..Len(table) : table[i].label = c})

\* train_test_split(..., test_size=0.2, stratify=y): n_test = ceil(0.2 * n) (exact
\* in floating point for n < 15), n_train = n - n_test; it raises ValueError when
\* the train set would be empty, when a class has fewer than 2 members, and when
\* n_train or n_test is smaller than the number of classes
NTest(n) == (n + 4) \div 5
train_test_split_raises(table) ==
    LET n == Len(table)
        n_classes == Cardinality(LabelSet(table))
    IN  \/ n - NTest(n) = 0
        \/ \E c \in LabelSet(table) : ClassCount(table, c) < 2
        \/ n - NTest(n) < n_classes
        \/ NTest(n) < n_classes

\* df["label"] raises KeyError on the column-less empty frame; otherwise the split
\* may raise; otherwise the pair is fitted and dumped to the model path
train_model_from_df(table, file) ==
    IF Len(table) = 0 THEN [raised |-> "KeyError", file |-> file]
    ELSE IF train_test_split_raises(table) THEN [raised |-> "ValueError", file |-> file]
    ELSE [raised |-> "", file |-> Artifact(NextGen(file), LabelSet(table))]

----------------------------------------------------------------------------
(* Prediction *)

\* the confidence levels sampled for a fitted forest: the predicted class is the
\* arg-max of the class probabilities, so its probability is at least 1/#classes,
\* and exactly 1 when the forest knows a single class
ConfLevels(classes) ==
    IF Cardinality(classes) = 1 THEN {100}
    ELSE {q \in {55, 70, 95} : q * Cardinality(classes) >= 100}

\* clf.classes_: the labels seen in training, sorted
ClassOrder == <<"bool", "email", "enum", "float", "int", "string", "uuid">>
FirstClass(classes) ==
    ClassOrder[CHOOSE i \in 1..Len(ClassOrder) :
                  /\ ClassOrder[i] \in classes
                  /\ \A j \in 1..(i - 1) : ClassOrder[j] \notin classes]

\* a row of predict_proba with mass q on class c and the rest on one other class
Peaked(classes, c, q) ==
    [x \in classes |->
        IF x = c THEN q
        ELSE IF x = FirstClass(classes \ {c}) THEN 100 - q
        ELSE 0]

\* the rows of predict_proba sampled for a fitted forest
FittedDistributions(classes) ==
    {Peaked(classes, c, q) : c \in classes, q \in ConfLevels(classes)}

\* clf.predict on a row: classes_[argmax(predict_proba)], the first maximum
ArgMax(prob_arr) ==
    FirstClass({c \in DOMAIN prob_arr : \A x \in DOMAIN prob_arr : prob_arr[x] <= prob_arr[c]})

\* the probability of the first class, whatever was predicted
ConfidenceOfFirstClass(prob_arr, pred) == prob_arr[FirstClass(DOMAIN prob_arr)]

\* line 189: prob_arr.get(pred, 0.0)
ConfidenceOf(prob_arr, pred) == IF pred \in DOMAIN prob_arr THEN prob_arr[pred] ELSE 0

FeatureSet(ts) ==
    LET rows == AllRows(ts.v, 1) IN {rows[i].feat : i \in 1..Len(rows)}

\* the fitted pairs an artifact can be, seen through what they answer on the
\* feature records of ts: a function of the features alone
Classifiers(file, ts) ==
    {[k |-> "clf", gen |-> file.gen, classes |-> file.classes, proba |-> o] :
        o \in [FeatureSet(ts) -> FittedDistributions(file.classes)]}

predict_params_for_templates(ts, clf) ==
    LET rows == AllRows(ts.v, 1)
    IN  [ i \in 1..Len(rows) |->
            [ template_index |-> rows[i].template_index,
              param_index |-> rows[i].param_index,
              name |-> rows[i].name,
              original_value |-> rows[i].original_value,
              predicted |-> ArgMax(clf.proba[rows[i].feat]),
              confidence |-> ConfidenceOf(clf.proba[rows[i].feat],
                                          ArgMax(clf.proba[rows[i].feat])),
              probabilities |-> clf.proba[rows[i].feat] ] ]

\* the call raises when there are rows and dv is None (dv.transform)
predict_raises(ts, clf) == Len(AllRows(ts.v, 1)) > 0 /\ clf.k # "clf"

----------------------------------------------------------------------------
(* Active learning: selection *)

\* LowConfidence with the threshold itself counted as low
LowConfidenceInclusive(ps, thr) == SelectSeq(ps, LAMBDA p : p.confidence <= thr)

\* [p for p in preds if p["confidence"] < threshold]
LowConfidence(ps, thr) == SelectSeq(ps, LAMBDA p : p.confidence < thr)

\* sorted(low, key=confidence): stable, ascending
RECURSIVE InsertSorted(_, _)
InsertSorted(sorted, x) ==
    IF sorted = <<>> THEN <<x>>
    ELSE IF x.confidence < Head(sorted).confidence THEN <<x>> \o sorted
    ELSE <<Head(sorted)>> \o InsertSorted(Tail(sorted), x)

RECURSIVE SortedByConfidence(_)
SortedByConfidence(ps) ==
    IF ps = <<>> THEN <<>>
    ELSE InsertSorted(SortedByConfidence(SubSeq(ps, 1, Len(ps) - 1)), ps[Len(ps)])

\* low_sorted[:batch]
SliceTo(seq, n) ==
    IF n >= 0 THEN SubSeq(seq, 1, IF n < Len(seq) THEN n ELSE Len(seq))
    ELSE SubSeq(seq, 1, Len(seq) + n)

SelectToLabel(ps, thr, bt) == SliceTo(SortedByConfidence(LowConfidence(ps, thr)), bt)

\* AcceptResponse without the check against the allowed labels
AcceptResponseUnchecked(labels, item, response) ==
    LET user == Strip(response)
    IN  IF user = "" THEN labels
        ELSE Append(labels, [template_index |-> item.template_index,
                             param_index |-> item.param_index,
                             label |-> user])

\* what one prompt does to manual_labels (lines 222-234)
AcceptResponse(labels, item, response) ==
    LET user == Strip(response)
    IN  IF user = "" THEN labels
        ELSE IF user \notin Labels THEN labels
        ELSE Append(labels, [template_index |-> item.template_index,
                             param_index |-> item.param_index,
                             label |-> user])

----------------------------------------------------------------------------
(* Addressing a parameter: coll[t_idx]["params"][p_idx] *)

Addressable(coll, t_idx, p_idx) ==
    /\ IndexOk(coll, t_idx)
    /\ "params" \in DOMAIN At(coll, t_idx).v
    /\ IndexOk(At(coll, t_idx).v["params"], p_idx)

ParamAt(coll, t_idx, p_idx) == At(At(coll, t_idx).v["params"], p_idx)

ReplaceParam(coll, t_idx, p_idx, new_param) ==
    LET t == At(coll, t_idx)
        ps == t.v["params"]
        new_ps == L([ps.v EXCEPT ![Pos(ps, p_idx)] = new_param])
    IN  L([coll.v EXCEPT ![Pos(coll, t_idx)] = SetKey(t, "params", new_ps)])

\* json.loads(json.dumps(x)): a structurally equal value that shares nothing with x
DeepCopy(x) == x

----------------------------------------------------------------------------
(* Retrain with manual labels *)

\* lines 245-251: one manual label applied to the collection, skipped on any exception
ApplyManualLabel(coll, ml) ==
    IF Addressable(coll, ml.template_index, ml.param_index)
    THEN ReplaceParam(coll, ml.template_index, ml.param_index,
                      SetKey(ParamAt(coll, ml.template_index, ml.param_index),
                             "type", S(ml.label)))
    ELSE coll

RECURSIVE ApplyManualLabels(_, _)
ApplyManualLabels(coll, mls) ==
    IF mls = <<>> THEN coll
    ELSE ApplyManualLabels(ApplyManualLabel(coll, Head(mls)), Tail(mls))

\* RetrainWorkingCopy without the copy: the labels land in the caller's collection
RetrainInPlace(ts, mls) ==
    [caller |-> ApplyManualLabels(ts, mls), templates_copy |-> ApplyManualLabels(ts, mls)]

\* line 243: the collection the labels are written into and the caller's own
RetrainWorkingCopy(ts, mls) ==
    [caller |-> ts, templates_copy |-> ApplyManualLabels(DeepCopy(ts), mls)]

\* lines 253-257 on the table built from the copy: the exception that left the
\* call ("" for none), the model file after it, whether it returns (None, None)
RetrainOutcome(w, table, t, file) ==
    [ caller |-> w.caller,
      templates_copy |-> w.templates_copy,
      df |-> table,
      raised |-> IF Len(table) = 0 THEN "" ELSE t.raised,
      file |-> IF Len(table) = 0 THEN file ELSE t.file,
      none |-> Len(table) = 0 ]

RetrainOnTable(w, table, file) ==
    RetrainOutcome(w, table, train_model_from_df(table, file), file)

RetrainOnCopy(w, file) ==
    RetrainOnTable(w, build_dataset_from_templates(w.templates_copy).df, file)

\* the whole call
retrain_with_manual_labels(ts, mls, file) ==
    RetrainOnCopy(RetrainWorkingCopy(ts, mls), file)

----------------------------------------------------------------------------
(* Baseline values and the merge *)

BASELINE_MAP(predicted_type) ==
    CASE predicted_type = "int" -> S("1")
      [] predicted_type = "float" -> S("1.23")
      [] predicted_type = "bool" -> S("true")
      [] predicted_type = "uuid" -> S("00000000-0000-0000-0000-000000000000")
      [] predicted_type = "email" -> S("test@example.com")
      [] predicted_type = "string" -> S("test")
      [] OTHER -> S("test")

\* a baseline value that does not look at the parameter
BaselineIgnoringOptions(param_entry, predicted_type) ==
    IF predicted_type = "enum" THEN S("option1") ELSE BASELINE_MAP(predicted_type)

\* lines 271-275
produce_benign_value_for_param(param_entry, predicted_type) ==
    LET opts == Or(Or(Get(param_entry, "options"), Get(param_entry, "opts")), None)
    IN  IF predicted_type = "enum"
        THEN IF IsList(opts) /\ Len(opts.v) > 0 THEN opts.v[1] ELSE S("option1")
        ELSE BASELINE_MAP(predicted_type)

\* EnrichParam with the baseline value computed before predicted_type is assigned,
\* from the predicted_type the parameter already carries
EnrichParamStale(param_obj, pred, conf) ==
    LET stale == GetOr(param_obj, "predicted_type", S("string")).v
        p1 == SetKey(param_obj, "predicted_type", S(pred))
        p2 == SetKey(p1, "predicted_confidence", N(conf))
    IN  SetKey(p2, "baseline_value", produce_benign_value_for_param(p2, stale))

\* lines 414-416 on one parameter object
EnrichParam(param_obj, pred, conf) ==
    LET p1 == SetKey(param_obj, "predicted_type", S(pred))
        p2 == SetKey(p1, "predicted_confidence", N(conf))
    IN  SetKey(p2, "baseline_value", produce_benign_value_for_param(p2, pred))

\* lines 408-418: one prediction merged, skipped on any exception
MergePrediction(enriched, p) ==
    IF Addressable(enriched, p.template_index, p.param_index)
    THEN ReplaceParam(enriched, p.template_index, p.param_index,
                      EnrichParam(ParamAt(enriched, p.template_index, p.param_index),
                                  p.predicted, p.confidence))
    ELSE enriched

RECURSIVE MergePredictions(_, _)
MergePredictions(enriched, ps) ==
    IF ps = <<>> THEN enriched
    ELSE MergePredictions(MergePrediction(enriched, Head(ps)), Tail(ps))

DEFAULT_MODEL_PATH == "param_type_model.joblib"

\* line 405: the collection the predictions are written into and the caller's own
MergeWorkingCopy(ts, ps) ==
    [caller |-> ts, enriched |-> MergePredictions(DeepCopy(ts), ps)]

\* lines 420-428: the file written
OutputOf(w, hint, now) ==
    [ caller |-> w.caller,
      file |-> [ k |-> "file",
                 meta |-> IF Truthy(hint)
                          THEN D([generated_at |-> N(now), model |-> S(DEFAULT_MODEL_PATH),
                                  input_format |-> hint])
                          ELSE D([generated_at |-> N(now), model |-> S(DEFAULT_MODEL_PATH)]),
                 templates |-> w.enriched ] ]

\* the whole call: the caller's collection after it and the file it writes
write_output_templates(ts, ps, hint, now) == OutputOf(MergeWorkingCopy(ts, ps), hint, now)

----------------------------------------------------------------------------
(* Loading and normalising the input *)

\* a JSON object read from a file keeps the order of its keys
OD(f, order) == [k |-> "dict", v |-> f, order |-> order]
KeysInOrder(d) == IF "order" \in DOMAIN d THEN d.order ELSE <<>>

_normalize_param(p) ==
    IF IsNone(p)
    THEN D([name |-> S(""), original_value |-> S(""), options |-> None,
            required |-> B(FALSE)])
    ELSE
    LET name == Or(Or(Or(Get(p, "name"), Get(p, "key")), Get(p, "param")), S(""))
        o1 == Get(p, "original_value")
        o2 == IF IsNone(o1) THEN Get(p, "value") ELSE o1
        o3 == IF IsNone(o2) THEN Get(p, "default") ELSE o2
        orig == IF IsNone(o3) THEN Or(Get(p, "example"), S("")) ELSE o3
        options ==
            Or(Or(Or(Get(p, "options"), Get(p, "opts")), Get(p, "choices")), None)
        required == B(Truthy(GetOr(p, "required", B(FALSE))))
        explicit_type == Get(p, "type")
        out == D([name |-> name, original_value |-> orig, options |-> options,
                  required |-> required])
    IN  IF Truthy(explicit_type) THEN SetKey(out, "type", explicit_type) ELSE out

NormalizeParams(params_raw) ==
    L([i \in 1..Len(params_raw.v) |-> _normalize_param(params_raw.v[i])])

HasList(raw, key) == key \in DOMAIN raw.v /\ IsList(raw.v[key])

\* lines 349-351: a non-empty list whose first element is an object with a string
\* under 'url', 'action' or 'method'
LooksLikeEndpoints(v) ==
    /\ IsList(v) /\ Len(v.v) > 0 /\ IsDict(v.v[1])
    /\ \E k2 \in {"url", "action", "method"} : IsStr(Get(v.v[1], k2))

\* lines 340-352: the (name, list) pairs to normalise, in order
DetectedSeqs(raw) ==
    LET named ==
            (IF HasList(raw, "forms") THEN <<"forms">> ELSE <<>>)
            \o (IF HasList(raw, "endpoints") THEN <<"endpoints">> ELSE <<>>)
    IN  IF named # <<>> THEN named
        ELSE SelectSeq(KeysInOrder(raw), LAMBDA key : LooksLikeEndpoints(raw.v[key]))

\* lines 359-370: one form or endpoint object as a template
NormalizeItem(item, seq_name, idx) ==
    LET template_url ==
            Or(Or(Or(Get(item, "action"), Get(item, "url")), Get(item, "template")), S(""))
        method ==
            IF Truthy(Get(item, "method"))
            THEN Upper(Or(Get(item, "method"), S("")).v)
            ELSE Upper(Or(Get(item, "verb"), S("")).v)
        params_raw == Or(Or(Get(item, "params"), Get(item, "parameters")), L(<<>>))
    IN  D([ id |-> Or(template_url, S(seq_name \o "_" \o IntStr(idx))),
            template |-> template_url,
            method |-> S(method),
            params |-> NormalizeParams(params_raw) ])

RECURSIVE NormalizeSeqs(_, _, _)
NormalizeSeqs(raw, seqs, idx) ==
    IF seqs = <<>> THEN <<>>
    ELSE LET items == raw.v[Head(seqs)].v
         IN  [i \in 1..Len(items) |-> NormalizeItem(items[i], Head(seqs), idx + i - 1)]
             \o NormalizeSeqs(raw, Tail(seqs), idx + Len(items))

\* lines 383-387: a form of the last fallback
FallbackForm(form, idx) ==
    LET template_url ==
            Or(Or(Or(Get(form, "action"), Get(form, "url")), Get(form, "template")),
               S("form_" \o IntStr(idx)))
    IN  D([ id |-> template_url, template |-> template_url,
            method |-> S(Upper(Or(Get(form, "method"), S("")).v)),
            params |-> NormalizeParams(Or(Get(form, "params"), L(<<>>))) ])

\* lines 391-394: the object itself as the one template
SingleTemplate(raw) ==
    LET template_url ==
            Or(Or(Or(Get(raw, "url"), Get(raw, "action")), Get(raw, "template")),
               S("template_0"))
    IN  D([ id |-> template_url, template |-> template_url,
            method |-> S(Upper(Or(Get(raw, "method"), S("")).v)),
            params |-> NormalizeParams(GetOr(raw, "params", L(<<>>))) ])

\* the shape load_templates uses, in the order it tries them; "error" is the
\* ValueError of line 397
LoadShape(raw) ==
    IF IsList(raw) THEN "list"
    ELSE IF IsDict(raw) /\ HasList(raw, "templates") THEN "templates"
    ELSE IF IsDict(raw) /\ NormalizeSeqs(raw, DetectedSeqs(raw), 0) # <<>> THEN "normalized"
    ELSE IF IsDict(raw) /\ ({"params", "forms", "endpoints"} \cap DOMAIN raw.v) # {}
            /\ HasList(raw, "forms") THEN "fallback-forms"
    ELSE IF IsDict(raw) /\ ({"params", "forms", "endpoints"} \cap DOMAIN raw.v) # {}
            /\ HasList(raw, "params") THEN "single"
    ELSE "error"

\* a wrapper whose templates list is normalised like a list of endpoints
WrapperTemplatesNormalized(raw) == L(NormalizeSeqs(raw, <<"templates">>, 0))

\* lines 334-335: the list under 'templates', as it is
WrapperTemplates(raw) == raw.v["templates"]

load_templates(raw) ==
    CASE LoadShape(raw) = "list" -> raw
      [] LoadShape(raw) = "templates" -> WrapperTemplates(raw)
      [] LoadShape(raw) = "normalized" -> L(NormalizeSeqs(raw, DetectedSeqs(raw), 0))
      [] LoadShape(raw) = "fallback-forms" ->
            L([i \in 1..Len(raw.v["forms"].v) |-> FallbackForm(raw.v["forms"].v[i], i - 1)])
      [] LoadShape(raw) = "single" -> L(<<SingleTemplate(raw)>>)
      [] OTHER -> None

\* lines 460-474: the hint main derives from the raw input
InputFormatHint(raw) ==
    IF IsDict(raw) THEN
        IF "forms" \in DOMAIN raw.v \/ "endpoints" \in DOMAIN raw.v THEN "forms/endpoints"
        ELSE IF "templates" \in DOMAIN raw.v THEN "templates-wrapper"
        ELSE "object"
    ELSE "list"

----------------------------------------------------------------------------
(* Program constants and the bounds of the model *)

CONFIDENCE_THRESHOLD == 70
ACTIVE_BATCH == 20

MaxBatch == 2       \* batch sizes 0..MaxBatch in direct calls of run_active_learning
MaxManual == 1      \* manual labels per direct call of retrain_with_manual_labels
MaxPreds == 2       \* predictions per direct call of write_output_templates
MaxTIdx == 1        \* template indices -1..MaxTIdx in direct calls
MaxPIdx == 2        \* parameter indices -1..MaxPIdx in direct calls
MaxClock == 3       \* timestamps 0..MaxClock

----------------------------------------------------------------------------
(* Inputs *)

P_uid == D([name |-> S("user_id"), original_value |-> S("42")])
P_role == D([name |-> S("role"), options |-> L(<<S("admin"), S("user")>>)])
P_mail == D([name |-> S("email_addr"), original_value |-> S("a@b.com")])
P_q == D([name |-> S("q"), original_value |-> S("hello")])
P_title == D([name |-> S("title"), original_value |-> S("x"), required |-> B(TRUE)])

Tpl(url, method, params) ==
    D([id |-> S(url), template |-> S(url), method |-> S(method), params |-> L(params)])

T_empty == L(<<>>)
T_noparams == L(<<Tpl("/ping", "GET", <<>>)>>)
T_single == L(<<Tpl("/u", "GET", <<P_uid>>)>>)
T_strings == L(<<Tpl("/s", "GET", <<P_q, P_title>>)>>)
T_mixed == L(<<Tpl("/m", "POST", <<P_role, P_uid>>)>>)
T_six == L(<<Tpl("/a", "GET", <<P_uid, P_uid, P_uid>>),
             Tpl("/b", "POST", <<P_role, P_role, P_role>>)>>)
T_three == L(<<Tpl("/m", "POST", <<P_role, P_uid>>), Tpl("/n", "GET", <<P_mail>>)>>)

\* the contents the input file can have
RawInputs ==
    { T_empty, T_noparams, T_single, T_strings, T_mixed, T_six,
      OD([templates |-> T_mixed], <<"templates">>),
      OD([templates |-> T_single, forms |-> L(<<>>)], <<"templates", "forms">>),
      OD([forms |-> L(<<D([action |-> S("/login"), method |-> S("post"),
                          params |-> L(<<D([key |-> S("user_id"), value |-> S("42")])>>)])>>)],
         <<"forms">>),
      OD([params |-> L(<<P_uid>>)], <<"params">>),
      OD([foo |-> N(1)], <<"foo">>),
      S("text") }

\* a model file left by an earlier run
OldArtifact == Artifact(0, {"int", "string"})

\* what the operator can type at a prompt: in direct calls of
\* run_active_learning, and (fewer, for the size of the state space) in main
Responses == {"", "int", " enum ", "number"}
MainResponses == {"", " enum "}

----------------------------------------------------------------------------
(* main *)

\* ModelBranch training whenever the model file is missing
ModelBranchTrainIfMissing(train, file) ==
    IF train \/ file = NoFile THEN "train" ELSE "load"

\* lines 476-487: which way main goes for the model
ModelBranch(train, file) ==
    IF train THEN "train" ELSE IF file = NoFile THEN "missing" ELSE "load"

\* lines 443-446
MainCheckInput ==
    /\ pc = "check_input"
    /\ pc' = IF inputFile = NoFile THEN "done" ELSE "load"
    /\ UNCHANGED <<mode, args, inputFile, modelFile, outputFile, templates,
                   input_format_hint, dv_clf, preds, threshold, batch, to_label,
                   item_i, prompts, manual_labels, templates_copy, df, raised,
                   clock, prevOutput, calls>>

\* lines 448-474
MainLoad ==
    /\ pc = "load"
    /\ IF LoadShape(inputFile) = "error"
       THEN /\ pc' = "done"
            /\ UNCHANGED <<templates, input_format_hint>>
       ELSE /\ templates' = load_templates(inputFile)
            /\ input_format_hint' = S(InputFormatHint(inputFile))
            /\ pc' = "model"
    /\ UNCHANGED <<mode, args, inputFile, modelFile, outputFile, dv_clf, preds,
                   threshold, batch, to_label, item_i, prompts, manual_labels,
                   templates_copy, df, raised, clock, prevOutput, calls>>

\* lines 476-487, given the branch taken, the table built and what training does
MainModelStep(branch, table, t) ==
    \/ /\ branch = "train" /\ Len(table) = 0
       /\ df' = table
       /\ pc' = "predict"
       /\ UNCHANGED <<modelFile, dv_clf, raised>>
    \/ /\ branch = "train" /\ Len(table) > 0 /\ t.raised # ""
       /\ df' = table
       /\ raised' = t.raised
       /\ pc' = "raised"
       /\ UNCHANGED <<modelFile, dv_clf>>
    \/ /\ branch = "train" /\ Len(table) > 0 /\ t.raised = ""
       /\ df' = table
       /\ modelFile' = t.file
       /\ dv_clf' \in Classifiers(t.file, templates)
       /\ pc' = "predict"
       /\ UNCHANGED raised
    \/ /\ branch = "missing"
       /\ pc' = "done"
       /\ UNCHANGED <<modelFile, dv_clf, raised, df>>
    \/ /\ branch = "load"
       /\ dv_clf' \in Classifiers(modelFile, templates)
       /\ pc' = "predict"
       /\ UNCHANGED <<modelFile, raised, df>>

MainModelOn(branch, table) ==
    MainModelStep(branch, table, train_model_from_df(table, modelFile))

\* lines 476-487
MainModel ==
    /\ pc = "model"
    /\ MainModelOn(ModelBranch(args.train, modelFile),
                   build_dataset_from_templates(templates).df)
    /\ UNCHANGED <<mode, args, inputFile, outputFile, templates, input_format_hint,
                   preds, threshold, batch, to_label, item_i, prompts,
                   manual_labels, templates_copy, clock, prevOutput, calls>>

\* lines 489-493 and 502
MainPredict ==
    /\ pc = "predict"
    /\ \/ /\ ~args.predict
          /\ pc' = "done"
          /\ UNCHANGED <<preds, raised>>
       \/ /\ args.predict /\ dv_clf = Unbound
          /\ raised' = "UnboundLocalError"
          /\ pc' = "raised"
          /\ UNCHANGED preds
       \/ /\ args.predict /\ dv_clf # Unbound
          /\ preds' = predict_params_for_templates(templates, dv_clf)
          /\ pc' = IF args.active THEN "al_select" ELSE "write"
          /\ UNCHANGED raised
    /\ UNCHANGED <<mode, args, inputFile, modelFile, outputFile, templates,
                   input_format_hint, dv_clf, threshold, batch, to_label, item_i,
                   prompts, manual_labels, templates_copy, df, clock, prevOutput, calls>>

----------------------------------------------------------------------------
(* run_active_learning *)

\* lines 204-216
ActiveSelect ==
    /\ pc = "al_select"
    /\ preds' = predict_params_for_templates(templates, dv_clf)
    /\ to_label' = SelectToLabel(preds', threshold, batch)
    /\ manual_labels' = <<>>
    /\ prompts' = <<>>
    /\ item_i' = 1
    /\ pc' = "al_prompt"
    /\ UNCHANGED <<mode, args, inputFile, modelFile, outputFile, templates,
                   input_format_hint, dv_clf, threshold, batch,
                   templates_copy, df, raised, clock, prevOutput, calls>>

\* lines 217-235: one pass of the loop
ActivePrompt ==
    /\ pc = "al_prompt"
    /\ item_i <= Len(to_label)
    /\ \E response \in (IF mode = "main" THEN MainResponses ELSE Responses) :
          /\ prompts' = Append(prompts, [item |-> to_label[item_i], response |-> response])
          /\ manual_labels' = AcceptResponse(manual_labels, to_label[item_i], response)
    /\ item_i' = item_i + 1
    /\ UNCHANGED <<mode, pc, args, inputFile, modelFile, outputFile, templates,
                   input_format_hint, dv_clf, preds, threshold, batch, to_label,
                   templates_copy, df, raised, clock, prevOutput, calls>>

\* main going on to the output whatever labels came back
AfterActiveNeverRetrain(labels) == "write"

\* lines 495-501: main retrains and re-predicts only if labels came back
AfterActive(labels) == IF labels # <<>> THEN "retrain" ELSE "write"

\* lines 210 and 236, and what the caller does with the result (lines 495-501)
ActiveReturn ==
    /\ pc = "al_prompt"
    /\ item_i > Len(to_label)
    /\ pc' = CASE mode = "active" -> "done"
               [] mode = "retrain" -> IF manual_labels # <<>> THEN "retrain" ELSE "done"
               [] OTHER -> AfterActive(manual_labels)
    /\ UNCHANGED <<mode, args, inputFile, modelFile, outputFile, templates,
                   input_format_hint, dv_clf, preds, threshold, batch, to_label,
                   item_i, prompts, manual_labels, templates_copy, df, raised,
                   clock, prevOutput, calls>>

----------------------------------------------------------------------------
(* retrain_with_manual_labels, re-prediction and the output *)

\* what a call of retrain_with_manual_labels with result r leaves behind
RetrainStep(r) ==
    /\ templates' = r.caller
    /\ templates_copy' = r.templates_copy
    /\ df' = r.df
    /\ modelFile' = r.file
    /\ raised' = r.raised
    /\ \/ /\ r.raised # ""
          /\ pc' = "raised"
          /\ UNCHANGED dv_clf
       \/ /\ r.raised = "" /\ r.none
          /\ dv_clf' = NoneClf
          /\ pc' = IF mode = "main" THEN "repredict" ELSE "done"
       \/ /\ r.raised = "" /\ ~r.none
          /\ dv_clf' \in Classifiers(r.file, templates)
          /\ pc' = IF mode = "main" THEN "repredict" ELSE "done"

\* lines 240-257 (called at line 497)
Retrain ==
    /\ pc = "retrain"
    /\ RetrainStep(retrain_with_manual_labels(templates, manual_labels, modelFile))
    /\ UNCHANGED <<mode, args, inputFile, outputFile, input_format_hint, preds,
                   threshold, batch, to_label, item_i, prompts, manual_labels,
                   clock, prevOutput, calls>>

\* line 500
MainRepredict ==
    /\ pc = "repredict"
    /\ IF predict_raises(templates, dv_clf)
       THEN /\ raised' = "AttributeError"
            /\ pc' = "raised"
            /\ UNCHANGED preds
       ELSE /\ preds' = predict_params_for_templates(templates, dv_clf)
            /\ pc' = "write"
            /\ UNCHANGED raised
    /\ UNCHANGED <<mode, args, inputFile, modelFile, outputFile, templates,
                   input_format_hint, dv_clf, threshold, batch, to_label, item_i,
                   prompts, manual_labels, templates_copy, df, clock, prevOutput, calls>>

\* what a call of write_output_templates with result w leaves behind
WriteStep(w) ==
    /\ templates' = w.caller
    /\ outputFile' = w.file

\* lines 400-429 (called at line 501)
WriteOutput ==
    /\ pc = "write"
    /\ WriteStep(write_output_templates(templates, preds, input_format_hint, clock))
    /\ clock' = IF clock < MaxClock THEN clock + 1 ELSE clock
    /\ pc' = IF mode = "merge" THEN "merged" ELSE "done"
    /\ UNCHANGED <<mode, args, inputFile, modelFile, input_format_hint, dv_clf,
                   preds, threshold, batch, to_label, item_i, prompts,
                   manual_labels, templates_copy, df, raised, prevOutput, calls>>

\* the same predictions merged into the templates of the output just written
MergeAgain ==
    /\ pc = "merged"
    /\ prevOutput' = outputFile
    /\ outputFile' =
           write_output_templates(outputFile.templates, preds, input_format_hint, clock).file
    /\ clock' = IF clock < MaxClock THEN clock + 1 ELSE clock
    /\ pc' = "done"
    /\ UNCHANGED <<mode, args, inputFile, modelFile, templates, input_format_hint,
                   dv_clf, preds, threshold, batch, to_label, item_i, prompts,
                   manual_labels, templates_copy, df, raised, calls>>

----------------------------------------------------------------------------
(* Specifications *)

Flags == [train : BOOLEAN, predict : BOOLEAN, active : BOOLEAN]
NoFlags == [train |-> FALSE, predict |-> FALSE, active |-> FALSE]

\* the locals no step has assigned yet
Blank ==
    /\ outputFile = NoFile
    /\ input_format_hint = None
    /\ preds = <<>>
    /\ to_label = <<>>
    /\ item_i = 1
    /\ prompts = <<>>
    /\ templates_copy = None
    /\ df = <<>>
    /\ raised = ""
    /\ clock = 0
    /\ prevOutput = NoFile
    /\ calls = <<>>

\* a run of main
Init ==
    /\ mode = "main"
    /\ pc = "check_input"
    /\ args \in Flags
    /\ inputFile \in RawInputs \cup {NoFile}
    /\ modelFile \in {NoFile, OldArtifact}
    /\ templates = None
    /\ dv_clf = Unbound
    /\ threshold = CONFIDENCE_THRESHOLD
    /\ batch = ACTIVE_BATCH
    /\ manual_labels = <<>>
    /\ Blank

Next ==
    \/ MainCheckInput
    \/ MainLoad
    \/ MainModel
    \/ MainPredict
    \/ ActiveSelect
    \/ ActivePrompt
    \/ ActiveReturn
    \/ Retrain
    \/ MainRepredict
    \/ WriteOutput

Spec == Init /\ [][Next]_vars

\* direct calls of run_active_learning(templates, dv, clf, threshold, batch)
ActiveTemplates == {T_three}
Thresholds == {70, 96}

InitActive ==
    /\ mode = "active"
    /\ pc = "al_select"
    /\ args = NoFlags
    /\ templates \in ActiveTemplates
    /\ inputFile = templates
    /\ modelFile = OldArtifact
    /\ dv_clf \in Classifiers(OldArtifact, templates)
    /\ threshold \in Thresholds
    /\ batch \in 0..MaxBatch
    /\ manual_labels = <<>>
    /\ Blank

NextActive ==
    \/ ActiveSelect
    \/ ActivePrompt
    \/ ActiveReturn

SpecActive == InitActive /\ [][NextActive]_vars

\* direct calls of retrain_with_manual_labels(templates, manual_labels, path), and
\* run_active_learning followed by it as at lines 494-497
ManualLabelRecords ==
    [template_index : (-1)..MaxTIdx, param_index : (-1)..MaxPIdx, label : {"int", "uuid"}]

RECURSIVE SeqsUpTo(_, _)
SeqsUpTo(set, n) ==
    IF n = 0 THEN {<<>>}
    ELSE SeqsUpTo(set, n - 1)
         \cup {Append(q, x) : q \in {r \in SeqsUpTo(set, n - 1) : Len(r) = n - 1}, x \in set}

InitRetrain ==
    /\ mode = "retrain"
    /\ args = NoFlags
    /\ templates = T_mixed
    /\ inputFile = templates
    /\ threshold = CONFIDENCE_THRESHOLD
    /\ batch = ACTIVE_BATCH
    /\ \/ /\ pc = "retrain"
          /\ modelFile \in {NoFile, OldArtifact}
          /\ dv_clf = Unbound
          /\ manual_labels \in SeqsUpTo(ManualLabelRecords, MaxManual)
       \/ /\ pc = "al_select"
          /\ modelFile = OldArtifact
          /\ dv_clf \in Classifiers(OldArtifact, templates)
          /\ manual_labels = <<>>
    /\ Blank

NextRetrain ==
    \/ ActiveSelect
    \/ ActivePrompt
    \/ ActiveReturn
    \/ Retrain

SpecRetrain == InitRetrain /\ [][NextRetrain]_vars

\* direct calls of write_output_templates(templates, predictions, path, hint), and
\* the same predictions merged once more into the templates it wrote
PredictionRecords ==
    [ template_index : (-1)..MaxTIdx, param_index : (-1)..MaxPIdx, name : {None},
      original_value : {None}, predicted : {"int", "enum"}, confidence : {55} ]

InitMerge ==
    /\ mode = "merge"
    /\ pc = "write"
    /\ args = NoFlags
    /\ templates = T_mixed
    /\ inputFile = templates
    /\ modelFile = OldArtifact
    /\ dv_clf = Unbound
    /\ threshold = CONFIDENCE_THRESHOLD
    /\ batch = ACTIVE_BATCH
    /\ manual_labels = <<>>
    /\ outputFile = NoFile
    /\ input_format_hint = S("list")
    /\ preds \in SeqsUpTo(PredictionRecords, MaxPreds)
    /\ to_label = <<>>
    /\ item_i = 1
    /\ prompts = <<>>
    /\ templates_copy = None
    /\ df = <<>>
    /\ raised = ""
    /\ clock = 0
    /\ prevOutput = NoFile
    /\ calls = <<>>

NextMerge ==
    \/ WriteOutput
    \/ MergeAgain

SpecMerge == InitMerge /\ [][NextMerge]_vars

----------------------------------------------------------------------------
(* Direct calls of load_templates *)

\* raw parameter objects as upstream tools write them, and a null entry
RP_canon ==
    D([name |-> S("id"), original_value |-> S("7"), options |-> None,
       required |-> B(FALSE)])
RP_key == D([key |-> S("user_id"), value |-> S("42")])
RP_opts ==
    D([param |-> S("role"), default |-> S("admin"),
       opts |-> L(<<S("admin"), S("user")>>), required |-> S("yes"),
       type |-> S("enum")])
RP_example == D([name |-> S("q"), example |-> S("hello"), choices |-> L(<<>>)])
RawParams == {RP_canon, RP_key, RP_opts, RP_example, None}

RawTpl(p) == D([template |-> S("/t"), method |-> S("GET"), params |-> L(<<p>>)])
Form(p) == D([action |-> S("/login"), method |-> S("post"), params |-> L(<<p>>)])
Endpoint(p) == D([url |-> S("/api"), verb |-> S("get"), parameters |-> L(<<p>>)])
Page(p) == D([url |-> S("/page"), params |-> L(<<p>>)])

\* what a top-level key of an input object can hold; Absent: the key is not there
Absent == [k |-> "absent"]
TopKeys == <<"templates", "forms", "endpoints", "params", "pages">>
KeyChoices(p) ==
    [ templates |-> {Absent, L(<<RawTpl(p)>>), N(1)},
      forms     |-> {Absent, L(<<Form(p)>>), L(<<>>), N(1)},
      endpoints |-> {Absent, L(<<Endpoint(p)>>)},
      params    |-> {Absent, L(<<p>>), N(1)},
      pages     |-> {Absent, L(<<Page(p)>>), L(<<S("x")>>)} ]

\* the JSON object with the keys that are not Absent, in the order of TopKeys
ObjectOf(choice) ==
    LET present == SelectSeq(TopKeys, LAMBDA key : choice[key] # Absent)
    IN  OD([key \in {present[i] : i \in 1..Len(present)} |-> choice[key]], present)

ObjectsWith(p) ==
    {ObjectOf(choice) :
        choice \in {c \in [DOMAIN KeyChoices(p) -> UNION {KeyChoices(p)[key] :
                                                        key \in DOMAIN KeyChoices(p)}] :
                       \A key \in DOMAIN KeyChoices(p) : c[key] \in KeyChoices(p)[key]}}

LoadInputs ==
    {L(<<>>), S("text"), None}
        \cup {L(<<RawTpl(p)>>) : p \in RawParams}
        \cup {L(<<RawTpl(p), RawTpl(q)>>) : p \in RawParams, q \in RawParams}
        \cup UNION {ObjectsWith(p) : p \in RawParams}

\* {"templates": L}
Wrap(list) == OD([templates |-> list], <<"templates">>)

\* a call of load_templates on a file holding raw: what it returns, or the
\* ValueError of line 397
LoadCallOf(raw) ==
    [ fn |-> "load_templates", arg |-> raw, out |-> load_templates(raw),
      raised |-> IF LoadShape(raw) = "error" THEN "ValueError" ELSE "" ]

LoadCall ==
    /\ mode = "load" /\ pc = "call"
    /\ calls' = Append(calls, LoadCallOf(inputFile))
    /\ pc' = IF IsList(inputFile) THEN "wrap" ELSE "done"
    /\ UNCHANGED <<mode, args, inputFile, modelFile, outputFile, templates,
                   input_format_hint, dv_clf, preds, threshold, batch, to_label,
                   item_i, prompts, manual_labels, templates_copy, df, raised,
                   clock, prevOutput>>

\* the same list loaded from inside a {"templates": ...} wrapper
LoadWrapped ==
    /\ mode = "load" /\ pc = "wrap"
    /\ calls' = Append(calls, LoadCallOf(Wrap(inputFile)))
    /\ pc' = "done"
    /\ UNCHANGED <<mode, args, inputFile, modelFile, outputFile, templates,
                   input_format_hint, dv_clf, preds, threshold, batch, to_label,
                   item_i, prompts, manual_labels, templates_copy, df, raised,
                   clock, prevOutput>>

\* the variables a direct call of a pure function does not use
Unused ==
    /\ args = NoFlags
    /\ modelFile = NoFile
    /\ templates = None
    /\ dv_clf = Unbound
    /\ threshold = CONFIDENCE_THRESHOLD
    /\ batch = ACTIVE_BATCH
    /\ manual_labels = <<>>
    /\ Blank

InitLoad ==
    /\ mode = "load"
    /\ pc = "call"
    /\ inputFile \in LoadInputs
    /\ Unused

NextLoad ==
    \/ LoadCall
    \/ LoadWrapped

SpecLoad == InitLoad /\ [][NextLoad]_vars

----------------------------------------------------------------------------
(* Direct calls of heuristic_label *)

HeuristicNames ==
    { None, S(""), S("id"), S("user_id"), S("ID"), S("idea"), S("page"), S("limit"),
      S("item_count"), S("is_admin"), S("has_x"), S("Enable"), S("debug_flag"),
      S("flagged"), S("this"), S("q"), S("email") }

HeuristicValues ==
    { None, S(""), S(" "), S("0"), S("1"), S("2"), S("-5"), S("42"), S(" 42 "),
      S("1.5"), S("-0.25"), S("1."), S(".5"), S("1.2.3"), S("true"), S("False"),
      S("123e4567-e89b-12d3-a456-426614174000"), S("123e4567-e89b-12d3-a456"),
      S("a@b.com"), S("a@b"), S("hello"), S("4x"), N(1), N(0), N(7), B(TRUE) }

HeuristicOptions == {None, L(<<>>), L(<<S("a"), S("b")>>)}

\* no call made yet
NoCall ==
    /\ pc = "call"
    /\ inputFile = NoFile
    /\ Unused

HeuristicCall ==
    /\ mode = "heuristic" /\ pc = "call"
    /\ \E name \in HeuristicNames, value \in HeuristicValues,
          options \in HeuristicOptions :
          calls' = Append(calls, [ fn |-> "heuristic_label", name |-> name,
                                   value |-> value, options |-> options,
                                   out |-> heuristic_label(name, value, options) ])
    /\ pc' = "done"
    /\ UNCHANGED <<mode, args, inputFile, modelFile, outputFile, templates,
                   input_format_hint, dv_clf, preds, threshold, batch, to_label,
                   item_i, prompts, manual_labels, templates_copy, df, raised,
                   clock, prevOutput>>

InitHeuristic == mode = "heuristic" /\ NoCall

NextHeuristic == HeuristicCall

SpecHeuristic == InitHeuristic /\ [][NextHeuristic]_vars

----------------------------------------------------------------------------
(* Direct calls of produce_benign_value_for_param *)

BaselineParams ==
    { P_uid, P_role, P_mail, P_q, P_title, RP_canon, RP_key, RP_opts, RP_example,
      D([name |-> S("a"), options |-> L(<<>>)]),
      D([name |-> S("b"), options |-> L(<<S("x")>>)]),
      D([name |-> S("c"), options |-> L(<<N(3), N(4)>>)]),
      D([name |-> S("d"), opts |-> L(<<S("y")>>)]),
      D([name |-> S("e"), options |-> L(<<>>), opts |-> L(<<S("z")>>)]),
      D([name |-> S("f"), options |-> None, original_value |-> S("v")]) }

\* the closed label set and a label outside it
PredictedTypes == Labels \cup {"object"}

BaselineCall ==
    /\ mode = "baseline" /\ pc = "call"
    /\ \E param_entry \in BaselineParams, predicted_type \in PredictedTypes :
          calls' = Append(calls,
              [ fn |-> "produce_benign_value_for_param", param |-> param_entry,
                label |-> predicted_type,
                out |-> produce_benign_value_for_param(param_entry, predicted_type) ])
    /\ pc' = "done"
    /\ UNCHANGED <<mode, args, inputFile, modelFile, outputFile, templates,
                   input_format_hint, dv_clf, preds, threshold, batch, to_label,
                   item_i, prompts, manual_labels, templates_copy, df, raised,
                   clock, prevOutput>>

InitBaseline == mode = "baseline" /\ NoCall

NextBaseline == BaselineCall

SpecBaseline == InitBaseline /\ [][NextBaseline]_vars

----------------------------------------------------------------------------
(* Direct calls of build_dataset_from_templates *)

MaxRowParams == 2       \* parameters per template in direct calls
MaxRowTemplates == 2    \* templates per collection in direct calls

P_typed == D([name |-> S("token"), original_value |-> S("abc"), type |-> S("uuid")])

DatasetTemplates ==
    {Tpl("/a", "GET", ps) : ps \in SeqsUpTo({P_uid, P_role, P_typed}, MaxRowParams)}
        \cup {D([template |-> S("/noparams"), method |-> S("POST")])}

DatasetCall ==
    /\ mode = "dataset" /\ pc = "call"
    /\ \E ts \in SeqsUpTo(DatasetTemplates, MaxRowTemplates) :
          calls' = Append(calls, [ fn |-> "build_dataset_from_templates",
                                   templates |-> L(ts),
                                   out |-> build_dataset_from_templates(L(ts)) ])
    /\ pc' = "done"
    /\ UNCHANGED <<mode, args, inputFile, modelFile, outputFile, templates,
                   input_format_hint, dv_clf, preds, threshold, batch, to_label,
                   item_i, prompts, manual_labels, templates_copy, df, raised,
                   clock, prevOutput>>

InitDataset == mode = "dataset" /\ NoCall

NextDataset == DatasetCall

SpecDataset == InitDataset /\ [][NextDataset]_vars

----------------------------------------------------------------------------
(* Direct calls of predict_params_for_templates *)

RECURSIVE SumOver(_, _)
SumOver(f, keys) ==
    IF keys = {} THEN 0
    ELSE LET x == CHOOSE x \in keys : TRUE IN f[x] + SumOver(f, keys \ {x})

\* the rows predict_proba can return over classes, on a grid of percentages: ties
\* and zero entries included
ProbLevels == {0, 5, 30, 45, 50, 55, 70, 95, 100}
Distributions(classes) ==
    {d \in [classes -> ProbLevels] : SumOver(d, classes) = 100}

PredictClassSets == {{"string"}, {"int", "string"}, {"enum", "int", "string"}}

PredictCall ==
    /\ mode = "predict" /\ pc = "call"
    /\ \E ts \in {T_empty, T_single, T_mixed}, classes \in PredictClassSets :
          \E proba \in [FeatureSet(ts) -> Distributions(classes)] :
              calls' = Append(calls,
                  [ fn |-> "predict_params_for_templates", templates |-> ts,
                    classes |-> classes,
                    out |-> predict_params_for_templates(ts,
                                [k |-> "clf", gen |-> 0, classes |-> classes,
                                 proba |-> proba]) ])
    /\ pc' = "done"
    /\ UNCHANGED <<mode, args, inputFile, modelFile, outputFile, templates,
                   input_format_hint, dv_clf, preds, threshold, batch, to_label,
                   item_i, prompts, manual_labels, templates_copy, df, raised,
                   clock, prevOutput>>

InitPredict == mode = "predict" /\ NoCall

NextPredict == PredictCall

SpecPredict == InitPredict /\ [][NextPredict]_vars

----------------------------------------------------------------------------
(* Properties *)

Min(a, b) == IF a < b THEN a ELSE b

\* the model file is as the run found it: absent, or the artifact of an earlier run
ModelFileUntouched == modelFile \in {NoFile, OldArtifact}

HasOptions(p) == IsList(Get(p, "options")) /\ Len(Get(p, "options").v) > 0

\* C1: every parameter whose options list is non-empty is labelled 'enum' by
\* heuristic_label, and the predicted_type written onto it in the output is 'enum',
\* whatever the classifier predicted for it.
C1_OptionsAlwaysEnum ==
    templates # None =>
        \A t \in 1..Len(templates.v) : \A j \in 1..Len(ParamsOf(templates.v[t])) :
            HasOptions(ParamsOf(templates.v[t])[j]) =>
                /\ heuristic_label(Get(ParamsOf(templates.v[t])[j], "name"),
                                   Get(ParamsOf(templates.v[t])[j], "original_value"),
                                   Get(ParamsOf(templates.v[t])[j], "options")) = "enum"
                /\ outputFile # NoFile =>
                       Get(ParamsOf(outputFile.templates.v[t])[j], "predicted_type")
                           = S("enum")

\* the items shown to the operator so far
Presented == [i \in 1..Len(prompts) |-> prompts[i].item]
BelowThreshold ==
    {n \in 1..Len(preds) : preds[n].confidence < threshold}
SamePosition(a, b) ==
    a.template_index = b.template_index /\ a.param_index = b.param_index

\* C2: the items presented are the min(batch, k) lowest-confidence ones of the k
\* predictions strictly below the threshold, in ascending order of confidence: never
\* more than batch, none with confidence >= threshold, and no unpresented
\* below-threshold prediction less confident than a presented one.
C2_LowestConfidenceBatch ==
    /\ Len(prompts) <= batch
    /\ pc = "done" =>
        /\ Len(prompts) = Min(batch, Cardinality(BelowThreshold))
        /\ \A i \in 1..Len(prompts) :
              /\ Presented[i].confidence < threshold
              /\ \E n \in BelowThreshold : preds[n] = Presented[i]
        /\ \A i, j \in 1..Len(prompts) :
              i < j => /\ Presented[i].confidence <= Presented[j].confidence
                       /\ ~SamePosition(Presented[i], Presented[j])
        /\ \A n \in BelowThreshold :
              (\A i \in 1..Len(prompts) : ~SamePosition(Presented[i], preds[n]))
                  => \A i \in 1..Len(prompts) :
                         preds[n].confidence >= Presented[i].confidence

C2_Witness ==
    /\ pc = "done" /\ mode = "active"
    /\ batch > 0 /\ Cardinality(BelowThreshold) > batch /\ Len(prompts) = batch
    /\ \E n \in 1..Len(preds) : preds[n].confidence = threshold

\* the labels a finished session must have returned when a response counts as a
\* label exactly if Accepts(response) holds, the label being LabelText(response)
ReturnedFor(Accepts(_), LabelText(_)) ==
    LET acc == SelectSeq(prompts, LAMBDA q : Accepts(q.response))
    IN  /\ Len(manual_labels) = Len(acc)
        /\ \A i \in 1..Len(acc) :
              manual_labels[i] = [ template_index |-> acc[i].item.template_index,
                                   param_index |-> acc[i].item.param_index,
                                   label |-> LabelText(acc[i].response) ]

PromptedOnceEach ==
    /\ Len(prompts) = Len(to_label)
    /\ \A i \in 1..Len(prompts) : prompts[i].item = to_label[i]

\* C3 (as stated): one manual label for each presented item whose response is a
\* member of the label set, in presentation order; any other response records
\* nothing; every returned label is in the set and every item is prompted once.
C3_AsStated ==
    pc = "done" =>
        /\ ReturnedFor(LAMBDA r : r \in Labels, LAMBDA r : r)
        /\ \A i \in 1..Len(manual_labels) : manual_labels[i].label \in Labels
        /\ PromptedOnceEach

\* C3 (amended): one manual label for each presented item whose response, with
\* leading and trailing whitespace removed, is a member of the label set, in
\* presentation order, the label being the stripped response; any other response
\* records nothing; every returned label is in the set and every item is prompted
\* exactly once.
C3_StrippedResponses ==
    pc = "done" =>
        /\ ReturnedFor(LAMBDA r : Strip(r) \in Labels, LAMBDA r : Strip(r))
        /\ \A i \in 1..Len(manual_labels) : manual_labels[i].label \in Labels
        /\ PromptedOnceEach

C3_Witness ==
    /\ pc = "done" /\ mode = "active"
    /\ Len(prompts) = 2 /\ Len(manual_labels) = 1
    /\ \E i \in 1..2 : prompts[i].response = "number"
    /\ \E i \in 1..2 : prompts[i].response = " enum "

\* C4: the caller's template collection is the same before and after
\* run_active_learning and retrain_with_manual_labels, for any manual labels: the
\* labels are written only into retrain's copy.
C4_CallerTemplatesUnchanged == templates = load_templates(inputFile)

C4_Witness ==
    /\ pc = "done" /\ mode = "retrain"
    /\ Len(prompts) > 0 /\ Len(manual_labels) > 0
    /\ templates_copy # None /\ templates_copy # templates

\* the manual labels addressed to the position (t_idx, p_idx)
AddressedTo(t_idx, p_idx) ==
    {n \in 1..Len(manual_labels) :
        manual_labels[n].template_index = t_idx /\ manual_labels[n].param_index = p_idx}
LastOf(set) == CHOOSE n \in set : \A m \in set : m <= n

\* C5: the table retrain rebuilds labels each parameter with the manual label
\* addressed to its (template index, parameter index) position if there is one, and
\* otherwise with its explicit type or heuristic label; a manual label whose indices
\* are not a position of the collection changes the label of no parameter.
C5_ManualLabelsByPosition ==
    templates_copy # None =>
        /\ Len(df) = Len(AllRows(templates.v, 1))
        /\ \A i \in 1..Len(df) :
              df[i].label =
                  IF AddressedTo(AllRows(templates.v, 1)[i].template_index,
                                 AllRows(templates.v, 1)[i].param_index) # {}
                  THEN manual_labels[LastOf(AddressedTo(
                           AllRows(templates.v, 1)[i].template_index,
                           AllRows(templates.v, 1)[i].param_index))].label
                  ELSE AllRows(templates.v, 1)[i].label

\* C6: training on a table that is empty or has a single distinct label ends in an
\* error, writes no model artifact and leaves an artifact already present unchanged.
C6_SingleClassNotTrained ==
    /\ (df # <<>> /\ Cardinality(LabelSet(df)) = 1) =>
           raised # "" /\ ModelFileUntouched
    /\ (mode = "main" /\ args.train /\ pc \in {"predict", "raised"}
           /\ Len(AllRows(templates.v, 1)) = 0) => ModelFileUntouched

\* nothing was written and nothing was raised
NothingWritten == outputFile = NoFile /\ ModelFileUntouched /\ raised = ""

\* C7: when the input file is missing, when load_templates rejects the JSON shape,
\* or when the model file is missing and --train was not given, main reports and
\* returns: the run never gets past that point, writes no output file and writes or
\* replaces no model artifact. (Without --train only a retrain writes the model.)
C7_EarlyExitsWriteNothing ==
    /\ inputFile = NoFile => pc \in {"check_input", "done"} /\ NothingWritten
    /\ (inputFile # NoFile /\ LoadShape(inputFile) = "error") =>
           pc \in {"check_input", "load", "done"} /\ NothingWritten
    /\ (~args.train /\ modelFile = NoFile) =>
           pc \in {"check_input", "load", "model", "done"} /\ NothingWritten
    /\ (~args.train /\ ~ModelFileUntouched) => templates_copy # None

C7_Witness ==
    /\ pc = "done" /\ mode = "main"
    /\ ~args.train /\ args.predict /\ modelFile = NoFile
    /\ inputFile # NoFile /\ LoadShape(inputFile) # "error"
    /\ outputFile = NoFile

\* C8: an input with no templates or no parameters is never an error: a run of
\* main on it, with any combination of --train, --predict and --active, raises no
\* exception.
C8_EmptyInputNeverRaises ==
    (templates # None /\ Len(AllRows(templates.v, 1)) = 0) => raised = ""

\* C9: merging the same predictions into the result of a merge gives the same
\* enriched templates as the first merge (the meta timestamp aside).
C9_MergeIdempotent ==
    (mode = "merge" /\ pc = "done") => outputFile.templates = prevOutput.templates

C9_Witness ==
    /\ mode = "merge" /\ pc = "done"
    /\ prevOutput.templates # templates
    /\ outputFile.meta # prevOutput.meta
    /\ Len(preds) = 2
    /\ SamePosition(preds[1], preds[2]) /\ preds[1].predicted # preds[2].predicted
    /\ Addressable(templates, preds[1].template_index, preds[1].param_index)

\* the predictions addressed to the position (t_idx, p_idx)
PredictionsFor(t_idx, p_idx) ==
    {n \in 1..Len(preds) :
        preds[n].template_index = t_idx /\ preds[n].param_index = p_idx}

\* C10: the merge leaves its input unchanged; every parameter addressed by a
\* prediction receives predicted_type, predicted_confidence and baseline_value;
\* every parameter addressed by no prediction is identical to its input; a
\* prediction whose indices are out of range changes no parameter.
C10_MergeFrame ==
    (mode = "merge" /\ pc = "merged") =>
        /\ templates = inputFile
        /\ \A t \in 1..Len(templates.v) : \A j \in 1..Len(ParamsOf(templates.v[t])) :
              IF PredictionsFor(t - 1, j - 1) # {}
              THEN {"predicted_type", "predicted_confidence", "baseline_value"}
                       \subseteq DOMAIN ParamsOf(outputFile.templates.v[t])[j].v
              ELSE ParamsOf(outputFile.templates.v[t])[j] = ParamsOf(templates.v[t])[j]

\* the four input shapes in their priority order; "none": the input is none of them
FourShapes(raw) ==
    IF IsList(raw) THEN "list"
    ELSE IF ~IsDict(raw) THEN "none"
    ELSE IF HasList(raw, "templates") THEN "templates-wrapper"
    ELSE IF HasList(raw, "forms") \/ HasList(raw, "endpoints") THEN "forms/endpoints"
    ELSE IF HasList(raw, "params") THEN "single"
    ELSE "none"

FormsAndEndpoints(raw) ==
    (IF HasList(raw, "forms") THEN <<"forms">> ELSE <<>>)
        \o (IF HasList(raw, "endpoints") THEN <<"endpoints">> ELSE <<>>)

\* C11: load_templates uses the first matching shape in the order bare list,
\* 'templates' list, 'forms' and/or 'endpoints' lists, single-template object, and
\* raises the format error exactly when the input is none of the four (an object
\* whose only list-valued keys have other names is rejected).
C11_FourShapesInOrder ==
    \A n \in 1..Len(calls) :
        calls[n].fn = "load_templates" =>
            /\ calls[n].raised = "ValueError" <=> FourShapes(calls[n].arg) = "none"
            /\ FourShapes(calls[n].arg) = "list" => calls[n].out = calls[n].arg
            /\ FourShapes(calls[n].arg) = "templates-wrapper" =>
                   calls[n].out = calls[n].arg.v["templates"]
            /\ FourShapes(calls[n].arg) = "forms/endpoints" =>
                   calls[n].out =
                       L(NormalizeSeqs(calls[n].arg, FormsAndEndpoints(calls[n].arg), 0))
            /\ FourShapes(calls[n].arg) = "single" =>
                   calls[n].out = L(<<SingleTemplate(calls[n].arg)>>)

\* C12: for any list of template objects, load_templates on the bare list and on
\* the wrapper {"templates": list} return identical template collections.
C12_WrapperRoundTrip ==
    \A n \in 1..Len(calls) : \A m \in 1..Len(calls) :
        (/\ calls[n].fn = "load_templates" /\ calls[m].fn = "load_templates"
         /\ IsList(calls[n].arg) /\ calls[m].arg = Wrap(calls[n].arg))
            => /\ calls[n].raised = "" /\ calls[m].raised = ""
               /\ calls[m].out = calls[n].out

C12_Witness ==
    /\ mode = "load" /\ pc = "done" /\ Len(calls) = 2
    /\ calls[2].arg = Wrap(calls[1].arg)
    /\ calls[1].out = L(<<RawTpl(RP_key)>>)

\* a parameter in canonical form: name, original_value, options and a boolean
\* required, and nothing else but an explicit type
IsCanonicalParam(p) ==
    /\ IsDict(p)
    /\ {"name", "original_value", "options", "required"} \subseteq DOMAIN p.v
    /\ DOMAIN p.v \subseteq {"name", "original_value", "options", "required", "type"}
    /\ IsStr(p.v["name"])
    /\ IsList(p.v["options"]) \/ IsNone(p.v["options"])
    /\ p.v["required"].k = "bool"

\* C13: for every input shape load_templates accepts (bare list, templates wrapper,
\* forms/endpoints, single template), every parameter of every returned template is
\* in canonical form: a name, an original_value, options and a boolean required.
C13_ReturnedParamsCanonical ==
    \A n \in 1..Len(calls) :
        (calls[n].fn = "load_templates" /\ calls[n].raised = "") =>
            \A t \in 1..Len(calls[n].out.v) :
                \A j \in 1..Len(ParamsOf(calls[n].out.v[t])) :
                    IsCanonicalParam(ParamsOf(calls[n].out.v[t])[j])

\* the name patterns of rules 2 and 4, read case-insensitively
IdentifierOrCountName(name) ==
    /\ IsStr(name)
    /\ \/ EndsWithDollar(Lower(name.v), "id")
       \/ \E w \in {"count", "num", "size", "page", "limit"} : Contains(Lower(name.v), w)
BooleanFlagName(name) ==
    /\ IsStr(name)
    /\ \/ \E w \in {"is", "has", "enable"} : StartsWith(Lower(name.v), w)
       \/ EndsWithDollar(Lower(name.v), "_flag")

\* the decision list: nine rules, the first that matches wins
NineRules(name, value, options) ==
    LET text == IF IsNone(value) THEN "" ELSE Strip(PyStr(value))
    IN  IF IsList(options) /\ Len(options.v) > 0 THEN "enum"
        ELSE IF text = "" THEN
            (IF IdentifierOrCountName(name) THEN "int" ELSE "string")
        ELSE IF Lower(text) \in {"true", "false"} THEN "bool"
        ELSE IF text \in {"0", "1"} /\ BooleanFlagName(name) THEN "bool"
        ELSE IF IsIntLiteral(text) THEN "int"
        ELSE IF IsFloatLiteral(text) THEN "float"
        ELSE IF IsUuidCore(text) THEN "uuid"
        ELSE IF Contains(text, "@") /\ Contains(text, ".") THEN "email"
        ELSE "string"

\* C14: heuristic_label(name, value, options) is, for every name, value and options,
\* the result of the nine-rule first-match-wins decision list: a value of exactly 0
\* or 1 is 'bool' only when the name begins with is/has/enable or ends in _flag and
\* 'int' otherwise; a decimal literal is digits.digits; an absent or empty value is
\* 'int' only when the name matches the identifier/count/size/page/limit pattern.
C14_NineRuleDecisionList ==
    \A n \in 1..Len(calls) :
        calls[n].fn = "heuristic_label" =>
            calls[n].out = NineRules(calls[n].name, calls[n].value, calls[n].options)

\* the fixed placeholders of the labels other than enum
Placeholder ==
    [ int |-> S("1"), float |-> S("1.23"), bool |-> S("true"),
      uuid |-> S("00000000-0000-0000-0000-000000000000"),
      email |-> S("test@example.com"), string |-> S("test") ]

\* the options a parameter carries: its non-empty 'options', or else its 'opts'
OptionList(p) ==
    IF Truthy(Get(p, "options")) THEN Get(p, "options") ELSE Get(p, "opts")

RECURSIVE PositionsFrom(_, _)
PositionsFrom(ts, t) ==
    IF t > Len(ts) THEN <<>>
    ELSE [j \in 1..Len(ParamsOf(ts[t])) |-> <<t, j>>] \o PositionsFrom(ts, t + 1)

ExplicitTypeOrHeuristic(p) ==
    IF "type" \in DOMAIN p.v /\ Truthy(p.v["type"]) THEN p.v["type"].v
    ELSE heuristic_label(Get(p, "name"), Get(p, "original_value"), Get(p, "options"))

\* the table and index of one call against the positions of its collection: one row
\* per position, in order, labelled as said, and an index entry per row that names
\* the row's template and parameter and belongs to that position only
RowsAndIndexOf(ts, out, pos) ==
    /\ Len(out.df) = Len(pos)
    /\ Len(out.meta) = Len(pos)
    /\ \A i \in 1..Len(pos) :
          /\ out.df[i].label = ExplicitTypeOrHeuristic(ParamsOf(ts[pos[i][1]])[pos[i][2]])
          /\ out.meta[i].template_id = Get(ts[pos[i][1]], "id")
          /\ out.meta[i].param_name = Get(ParamsOf(ts[pos[i][1]])[pos[i][2]], "name")
          /\ \A m \in 1..Len(pos) : out.meta[m] = out.meta[i] => m = i

\* C16: build_dataset_from_templates produces exactly one row per parameter, in
\* template order then parameter order, each labelled with the parameter's explicit
\* type if present and otherwise with heuristic_label's output, and an index of the
\* same length and order whose i-th entry records the (template, parameter)
\* position of row i.
C16_RowsAndPositionIndex ==
    \A n \in 1..Len(calls) :
        calls[n].fn = "build_dataset_from_templates" =>
            RowsAndIndexOf(calls[n].templates.v, calls[n].out,
                           PositionsFrom(calls[n].templates.v, 1))

\* C17: every prediction record has a confidence equal to the probability its own
\* distribution assigns to its predicted label, the confidence lies in [0,1] (0 to
\* 100 percent), and the distribution's probabilities over the classifier's label
\* set sum to 1 (100 percent).
C17_ConfidenceIsOwnProbability ==
    \A n \in 1..Len(calls) :
        calls[n].fn = "predict_params_for_templates" =>
            \A i \in 1..Len(calls[n].out) :
                /\ DOMAIN calls[n].out[i].probabilities = calls[n].classes
                /\ calls[n].out[i].predicted \in calls[n].classes
                /\ calls[n].out[i].confidence =
                       calls[n].out[i].probabilities[calls[n].out[i].predicted]
                /\ calls[n].out[i].confidence \in 0..100
                /\ SumOver(calls[n].out[i].probabilities, calls[n].classes) = 100

C17_Witness ==
    /\ mode = "predict" /\ pc = "done"
    /\ Len(calls[1].out) = 2
    /\ calls[1].out[1].predicted = "string" /\ calls[1].out[1].confidence = 55
    /\ calls[1].out[2].predicted = "int" /\ calls[1].out[2].confidence = 50

\* how often the model file has been written when main first predicts
WritesBeforePredict == IF args.train THEN 1 ELSE 0

\* the output is the merge of the predictions the current pair makes
OutputFromCurrentPair ==
    /\ dv_clf.k = "clf"
    /\ dv_clf.gen = modelFile.gen /\ dv_clf.classes = modelFile.classes
    /\ preds = predict_params_for_templates(templates, dv_clf)
    /\ outputFile.templates = MergeWorkingCopy(templates, preds).enriched

ShapeName(raw) ==
    CASE LoadShape(raw) = "list" -> "list"
      [] LoadShape(raw) = "templates" -> "templates-wrapper"
      [] LoadShape(raw) \in {"normalized", "fallback-forms"} -> "forms/endpoints"
      [] LoadShape(raw) = "single" -> "object"
      [] OTHER -> "none"

\* C19: in every run of main that writes an output file, meta.input_format names
\* the shape load_templates actually used for the templates of the run: 'list',
\* 'templates-wrapper', 'forms/endpoints' or 'object', also for inputs that carry
\* the keys of more than one shape.
C19_InputFormatNamesShapeUsed ==
    (mode = "main" /\ outputFile # NoFile) =>
        /\ templates = load_templates(inputFile)
        /\ Get(outputFile.meta, "input_format") = S(ShapeName(inputFile))

====
